---- MODULE Spec2Model ----
(***************************************************************************)
(* TextHighlighter (communicate-assist/src/app/components/                 *)
(* TextHighlighter.tsx): a contentEditable surface whose children are      *)
(* rebuilt from (inputText, comparisonText), a caret tracker, and a hover  *)
(* tooltip.                                                                *)
(*                                                                         *)
(* Strings are sequences of UTF-16 code units; a code unit is a TLA+       *)
(* string naming it ("a", "A", "Idot" for U+0130, "cdot" for U+0307).      *)
(* Indices into strings are 0-based as in the source; Substring and        *)
(* IndexOf convert at the boundary.                                        *)
(***************************************************************************)
EXTENDS Integers, Sequences, FiniteSets, TLC

----------------------------------------------------------------------------
(* Bounds of the model *)

MaxInputLen == 3
MaxCmpLen == 2
MaxTextLen == 1
MaxPending == 2

----------------------------------------------------------------------------
(* Host string primitives (ECMAScript String.prototype) *)

Min(a, b) == IF a < b THEN a ELSE b
Max(a, b) == IF a > b THEN a ELSE b

RECURSIVE Concat(_)
Concat(ss) == IF ss = <<>> THEN <<>> ELSE Head(ss) \o Concat(Tail(ss))

\* Lower-case mapping of one code unit.  U+0130 is the one code unit whose
\* unconditional lower-case mapping is two code units long (U+0069 U+0307).
LowerUnit(c) ==
  CASE c = "A" -> <<"a">>
    [] c = "B" -> <<"b">>
    [] c = "E" -> <<"e">>
    [] c = "T" -> <<"t">>
    [] c = "Idot" -> <<"i", "cdot">>
    [] OTHER -> <<c>>

\* s.toLowerCase()
toLowerCase(s) == Concat([i \in 1..Len(s) |-> LowerUnit(s[i])])

\* s.substring(a, b): both ends clamped to [0, s.length], swapped if a > b
Substring(s, a, b) ==
  LET ca == Max(0, Min(a, Len(s)))
      cb == Max(0, Min(b, Len(s)))
      lo == Min(ca, cb)
      hi == Max(ca, cb)
  IN  SubSeq(s, lo + 1, hi)

\* does needle occur in hay at 0-based index i
OccursAt(hay, needle, i) ==
  /\ i >= 0
  /\ i + Len(needle) <= Len(hay)
  /\ SubSeq(hay, i + 1, i + Len(needle)) = needle

\* hay.indexOf(needle, from): the smallest index >= from at which needle
\* occurs, -1 if none; the empty needle occurs at min(from, hay.length)
IndexOf(hay, needle, from) ==
  LET start == Max(0, Min(from, Len(hay)))
      hits == {i \in start..Len(hay) : OccursAt(hay, needle, i)}
  IN  IF hits = {} THEN -1 ELSE CHOOSE i \in hits : \A j \in hits : i <= j

----------------------------------------------------------------------------
(* State *)

VARIABLES
  inputText,          \* useState('')                       line 13
  comparisonText,     \* useState('example')                line 14
  isFocused,          \* useState(false)                    line 15
  cursorPosition,     \* useState(0)                        line 16
  isComposing,        \* useState(false)                    line 17
  tooltip,            \* useState<TooltipState>             line 18 (visible only)
  tooltipTimeoutRef,  \* useRef: 0 is null, else a timer id line 20
  showTimers,         \* ids of the pending setTimeout(.., 100) of line 274
  pendingRestores,    \* queue of the pending setTimeout(.., 0) of line 335
  listenerComposing,  \* isComposing closed over by the registered mousemove listener
  surface,            \* childNodes of inputRef.current
  selection,          \* window.getSelection(), its first range's start
  hung,               \* the UI thread never returned from getHighlightedSegments
  scan,               \* locals of one getHighlightedSegments call, stepped by SegSpec
  lastMove,           \* what the last pointer-move handled outside composition found
  wrote,              \* whether the last event's run replaced the children of the surface
  rebuilt,            \* whether the last event's run completed lines 313-331
  mounted,            \* the component is mounted: inputRef.current is not null
  listening,          \* handleDocumentMouseMove is registered on document, line 289
  anchor              \* of the span a pending show timer / the visible tooltip took its
                      \* rectangle from (line 273): "none", "live" in the surface, or
                      \* "stale" once the surface's children were replaced; the timer
                      \* is "cancelled" once the cleanup at unmount has cleared it

vars == <<inputText, comparisonText, isFocused, cursorPosition, isComposing,
          tooltip, tooltipTimeoutRef, showTimers, pendingRestores,
          listenerComposing, surface, selection, hung, scan, lastMove, wrote,
          rebuilt, mounted, listening, anchor>>

uiVars == <<isFocused, cursorPosition, isComposing, tooltip, tooltipTimeoutRef,
            showTimers, pendingRestores, listenerComposing, surface, selection,
            hung, lastMove, wrote, rebuilt, mounted, listening, anchor>>

----------------------------------------------------------------------------
(* Segment computer: getHighlightedSegments, lines 24-67 *)

Segment(t, h) == [text |-> t, highlight |-> h]

\* lines 25-35: the early return for empty input, else the locals before the loop
ScanInit(s, c) ==
  IF s = <<>>
  THEN [pc |-> "done", segments |-> <<Segment(<<>>, FALSE)>>,
        currentIndex |-> 0, matchIndex |-> -1]
  ELSE [pc |-> "loop", segments |-> <<>>, currentIndex |-> 0,
        matchIndex |-> IndexOf(toLowerCase(s), toLowerCase(c), 0)]

\* line 36: the loop condition
ScanCond(s, st) == st.matchIndex # -1 /\ st.currentIndex <= Len(s)

\* lines 38-43: the unmatched segment before a match
ScanGap(s, st) ==
  IF st.matchIndex > st.currentIndex
  THEN <<Segment(Substring(s, st.currentIndex, st.matchIndex), FALSE)>>
  ELSE <<>>

\* lines 37-55: one iteration of the loop
ScanBody(s, c, st) ==
  LET lowerInput == toLowerCase(s)
      lowerComparison == toLowerCase(c)
      cur == st.matchIndex + Len(lowerComparison)
  IN  [pc |-> "loop",
       segments |-> st.segments \o ScanGap(s, st)
                    \o <<Segment(Substring(s, st.matchIndex, cur), TRUE)>>,
       currentIndex |-> cur,
       matchIndex |-> IndexOf(lowerInput, lowerComparison, cur)]

\* lines 58-66: the remaining text and the return
ScanTail(s, st) ==
  [st EXCEPT !.pc = "done",
             !.segments = IF st.currentIndex < Len(s)
                          THEN @ \o <<Segment(Substring(s, st.currentIndex, Len(s)), FALSE)>>
                          ELSE @]

\* One step of the call from the loop head.  The loop condition and body read
\* only currentIndex and matchIndex besides the two texts, so an iteration
\* that leaves both unchanged repeats forever, pushing a segment each time:
\* the call does not return (pc = "hung").
ScanStep(s, c, st) ==
  IF ~ScanCond(s, st) THEN ScanTail(s, st)
  ELSE LET n == ScanBody(s, c, st)
       IN  IF n.currentIndex = st.currentIndex /\ n.matchIndex = st.matchIndex
           THEN [n EXCEPT !.pc = "hung"]
           ELSE n

RECURSIVE RunScan(_, _, _)
RunScan(s, c, st) ==
  IF st.pc \in {"done", "hung"} THEN st ELSE RunScan(s, c, ScanStep(s, c, st))

getHighlightedSegments(s, c) == RunScan(s, c, ScanInit(s, c))

----------------------------------------------------------------------------
(* DOM of the editable surface *)

PLACEHOLDER == <<"T", "y", "p", "e", " ", "s", "o", "m", "e", "t", "h", "i", "n", "g",
                 ".", ".", ".">>

TextNode(t) == [kind |-> "text", cls |-> "text", text |-> t, kids |-> <<>>]

\* an element whose textContent was set to t: one text node child, none for ''
Span(cls, t) ==
  [kind |-> "span", cls |-> cls, text |-> <<>>,
   kids |-> IF t = <<>> THEN <<>> ELSE <<t>>]

\* innerHTML = '<span class="text-gray-400">Type something...</span>'
PlaceholderSurface == <<Span("placeholder", PLACEHOLDER)>>

NoSelection == [c |-> "none", i |-> 0, j |-> 0, off |-> 0]

InRoot(off) == [c |-> "root", i |-> 0, j |-> 0, off |-> off]
InChild(i, off) == [c |-> "child", i |-> i, j |-> 0, off |-> off]
InGrandchild(i, j, off) == [c |-> "grandchild", i |-> i, j |-> j, off |-> off]
Outside == [c |-> "outside", i |-> 0, j |-> 0, off |-> 0]

\* inputRef.current.contains(range.startContainer), with rangeCount > 0
SelectionInSurface(sel) == sel.c \in {"root", "child", "grandchild"}

NodeText(n) == IF n.kind = "text" THEN n.text ELSE Concat(n.kids)

\* inputRef.current.textContent
TextContent(surf) == Concat([i \in 1..Len(surf) |-> NodeText(surf[i])])

\* the selection after the nodes it was in are removed from the surface
\* (innerHTML = ...): a boundary point inside the surface moves to the surface
CollapseToRoot(sel) == IF SelectionInSurface(sel) THEN InRoot(0) ELSE sel

----------------------------------------------------------------------------
(* Caret tracker *)

\* lines 93-103: the children of one element child
RECURSIVE SaveWalkKids(_, _, _, _, _)
SaveWalkKids(kids, j, i, sel, total) ==
  IF j > Len(kids) THEN [found |-> FALSE, total |-> total]
  ELSE IF sel.c = "grandchild" /\ sel.i = i /\ sel.j = j
       THEN [found |-> TRUE, total |-> total + sel.off]
       ELSE SaveWalkKids(kids, j + 1, i, sel, total + Len(kids[j]))

\* lines 85-107: the walk over the children of the surface
RECURSIVE SaveWalk(_, _, _, _)
SaveWalk(surf, i, sel, total) ==
  IF i > Len(surf) THEN total
  ELSE IF sel.c = "child" /\ sel.i = i THEN total + sel.off
  ELSE IF surf[i].kind = "text" THEN SaveWalk(surf, i + 1, sel, total + Len(surf[i].text))
  ELSE IF Len(surf[i].kids) > 0
       THEN LET r == SaveWalkKids(surf[i].kids, 1, i, sel, total)
            IN  IF r.found THEN r.total ELSE SaveWalk(surf, i + 1, sel, r.total)
       ELSE SaveWalk(surf, i + 1, sel, total)

\* lines 74-113 with the tests of lines 77 and 79 left out
saveCursorPositionUnguarded(surf, sel, cp) == SaveWalk(surf, 1, sel, 0)

\* lines 74-113: the cursorPosition that saveCursorPosition leaves
saveCursorPosition(surf, sel, cp) ==
  IF SelectionInSurface(sel) THEN SaveWalk(surf, 1, sel, 0) ELSE cp

\* lines 226-242, on the surface: the last text node in document order,
\* as a collapsed selection at its end; NoSelection when there is none
RECURSIVE findLastTextNode(_, _)
findLastTextNode(surf, i) ==
  IF i = 0 THEN NoSelection
  ELSE IF surf[i].kind = "text" THEN InChild(i, Len(surf[i].text))
  ELSE IF Len(surf[i].kids) > 0
       THEN InGrandchild(i, Len(surf[i].kids), Len(surf[i].kids[Len(surf[i].kids)]))
       ELSE findLastTextNode(surf, i - 1)

\* lines 186-196: no sibling left
RestoreAtEnd(surf) ==
  LET last == findLastTextNode(surf, Len(surf))
  IN  IF last.c # "none" THEN last ELSE InRoot(0)

\* lines 166-198: the walk over the children of the surface
RECURSIVE RestoreWalk(_, _, _, _)
RestoreWalk(surf, i, currentPos, position) ==
  LET isText == surf[i].kind = "text"
      nodeLength == Len(surf[i].text)
      found == isText /\ currentPos + nodeLength >= position
      nextPos == IF isText THEN currentPos + nodeLength ELSE currentPos
  IN  IF found THEN InChild(i, Min(position - currentPos, nodeLength))
      ELSE IF i < Len(surf) THEN RestoreWalk(surf, i + 1, nextPos, position)
      ELSE RestoreAtEnd(surf)

\* lines 141-223: the surface and the selection that setCursorToPosition
\* leaves; focused and composing are the values its closure holds
setCursorToPosition(position, focused, composing, surf, sel) ==
  IF ~focused \/ composing THEN [surface |-> surf, selection |-> sel]
  ELSE IF surf = <<>>
       THEN [surface |-> <<TextNode(<<>>)>>, selection |-> InChild(1, 0)]
       ELSE [surface |-> surf, selection |-> RestoreWalk(surf, 1, 0, position)]

----------------------------------------------------------------------------
(* Initial state: the component after mount (lines 13-20, 288-289, 300-308,
   361-365) *)

NoAnchor == [timer |-> "none", shown |-> "none"]

IdleScan == [pc |-> "idle", segments |-> <<>>, currentIndex |-> 0, matchIndex |-> -1]

InitialComparison == <<"e", "x", "a", "m", "p", "l", "e">>

InitUI ==
  /\ isFocused = FALSE
  /\ cursorPosition = 0
  /\ isComposing = FALSE
  /\ tooltip = [visible |-> FALSE]
  /\ tooltipTimeoutRef = 0
  /\ showTimers = {}
  /\ pendingRestores = <<>>
  /\ listenerComposing = FALSE
  /\ surface = PlaceholderSurface
  /\ selection = NoSelection
  /\ hung = FALSE
  /\ lastMove = "none"
  /\ wrote = TRUE
  /\ rebuilt = FALSE
  /\ mounted = TRUE
  /\ listening = TRUE
  /\ anchor = NoAnchor

----------------------------------------------------------------------------
(* SegSpec: getHighlightedSegments stepped through its loop, for every pair
   of texts within the bounds and the examples of the documentation *)

SegChars == {"a", "A", "b", "Idot"}

StringsUpTo(chars, n) == UNION {[1..k -> chars] : k \in 0..n}

ExampleInputs ==
  { <<"a", "b", "a", "b", "a", "b">>,
    <<"E", "x", "a", "m", "p", "l", "e", " ", "t", "e", "x", "t">>,
    <<"h", "e", "l", "l", "o", " ", "w", "o", "r", "l", "d">> }

ExampleComparisons ==
  { <<"a", "b">>, InitialComparison, <<"x", "y", "z">> }

SegInit ==
  /\ InitUI
  /\ inputText \in StringsUpTo(SegChars, MaxInputLen) \cup ExampleInputs
  /\ comparisonText \in StringsUpTo(SegChars, MaxCmpLen) \cup ExampleComparisons
  /\ scan = IdleScan

\* the call is entered: lines 24-35
SegStart ==
  /\ scan.pc = "idle"
  /\ scan' = ScanInit(inputText, comparisonText)
  /\ UNCHANGED <<inputText, comparisonText, uiVars>>

\* line 36 holds: one iteration, lines 37-55
SegIter ==
  /\ scan.pc = "loop"
  /\ ScanCond(inputText, scan)
  /\ scan' = ScanStep(inputText, comparisonText, scan)
  /\ UNCHANGED <<inputText, comparisonText, uiVars>>

\* line 36 fails: lines 58-66
SegFinish ==
  /\ scan.pc = "loop"
  /\ ~ScanCond(inputText, scan)
  /\ scan' = ScanStep(inputText, comparisonText, scan)
  /\ UNCHANGED <<inputText, comparisonText, uiVars>>

SegNext == SegStart \/ SegIter \/ SegFinish

SegSpec == SegInit /\ [][SegNext]_vars

----------------------------------------------------------------------------
(* The browser's editing of the contentEditable surface (line 390): a code
   unit typed at the caret, or the one before the caret deleted *)

InsertSeq(t, off, x) == SubSeq(t, 1, off) \o <<x>> \o SubSeq(t, off + 1, Len(t))
RemoveSeq(t, off) == SubSeq(t, 1, off - 1) \o SubSeq(t, off + 1, Len(t))

EditInsert(surf, sel, ch) ==
  CASE sel.c = "grandchild" ->
         [surface |-> [surf EXCEPT ![sel.i].kids[sel.j] = InsertSeq(@, sel.off, ch)],
          selection |-> InGrandchild(sel.i, sel.j, sel.off + 1)]
    [] sel.c = "child" /\ surf[sel.i].kind = "text" ->
         [surface |-> [surf EXCEPT ![sel.i].text = InsertSeq(@, sel.off, ch)],
          selection |-> InChild(sel.i, sel.off + 1)]
    [] sel.c = "child" /\ surf[sel.i].kind = "span" ->
         [surface |-> [surf EXCEPT ![sel.i].kids = InsertSeq(@, sel.off, <<ch>>)],
          selection |-> InGrandchild(sel.i, sel.off + 1, 1)]
    [] sel.c = "root" ->
         [surface |-> InsertSeq(surf, sel.off, TextNode(<<ch>>)),
          selection |-> InChild(sel.off + 1, 1)]

CanDelete(surf, sel) ==
  /\ sel.off > 0
  /\ \/ sel.c = "grandchild"
     \/ sel.c = "child" /\ surf[sel.i].kind = "text"

\* a text node the deletion empties is removed, and the caret moves to the
\* element that held it
EditDelete(surf, sel) ==
  IF sel.c = "grandchild"
  THEN IF Len(surf[sel.i].kids[sel.j]) = 1
       THEN [surface |-> [surf EXCEPT ![sel.i].kids = RemoveSeq(@, sel.j)],
             selection |-> InChild(sel.i, sel.j - 1)]
       ELSE [surface |-> [surf EXCEPT ![sel.i].kids[sel.j] = RemoveSeq(@, sel.off)],
             selection |-> InGrandchild(sel.i, sel.j, sel.off - 1)]
  ELSE IF Len(surf[sel.i].text) = 1
       THEN [surface |-> RemoveSeq(surf, sel.i), selection |-> InRoot(sel.i - 1)]
       ELSE [surface |-> [surf EXCEPT ![sel.i].text = RemoveSeq(@, sel.off)],
             selection |-> InChild(sel.i, sel.off - 1)]

\* where a click or an arrow key can put the caret: any offset of any text node
NodeCarets(surf, i) ==
  IF surf[i].kind = "text"
  THEN {InChild(i, off) : off \in 0..Len(surf[i].text)}
  ELSE UNION {{InGrandchild(i, j, off) : off \in 0..Len(surf[i].kids[j])} :
                j \in 1..Len(surf[i].kids)}

CaretPositions(surf) == UNION {NodeCarets(surf, i) : i \in 1..Len(surf)}

----------------------------------------------------------------------------
(* One render and its effects *)

\* the React state of the current render
Cur ==
  [inputText |-> inputText, comparisonText |-> comparisonText,
   isFocused |-> isFocused, cursorPosition |-> cursorPosition,
   isComposing |-> isComposing]

\* everything outside React state that handlers and effects read and write;
\* wrote: whether this run has replaced the children of the surface;
\* rebuilt: whether this run has completed a rebuild
World ==
  [surface |-> surface, selection |-> selection,
   pendingRestores |-> pendingRestores, tooltipTimeoutRef |-> tooltipTimeoutRef,
   showTimers |-> showTimers, listenerComposing |-> listenerComposing,
   hung |-> hung, wrote |-> FALSE, rebuilt |-> FALSE, listening |-> listening,
   anchor |-> anchor]

\* the spans a rectangle was taken from are no longer children of the surface
Detach(a) ==
  [timer |-> IF a.timer = "live" THEN "stale" ELSE a.timer,
   shown |-> IF a.shown = "live" THEN "stale" ELSE a.shown]

\* element.innerHTML = ...
SetInnerHTML(w, children) ==
  [w EXCEPT !.surface = children, !.selection = CollapseToRoot(@), !.wrote = TRUE,
            !.anchor = Detach(@)]

\* lines 290-296 with the clearTimeout call left out
MouseCleanupKeepsTimer(w) ==
  [w EXCEPT !.listening = FALSE]

\* lines 290-296: the cleanup of the pointer effect
MouseCleanup(w) ==
  IF w.tooltipTimeoutRef # 0 /\ w.tooltipTimeoutRef \in w.showTimers
  THEN [w EXCEPT !.listening = FALSE,
                 !.showTimers = @ \ {w.tooltipTimeoutRef},
                 !.anchor.timer = IF w.showTimers = {w.tooltipTimeoutRef}
                                  THEN "none" ELSE @]
  ELSE [w EXCEPT !.listening = FALSE]

\* lines 288-297, deps [comparisonText, isComposing]: the cleanup of the
\* previous render's effect, then the listener of this render
MouseEffect(old, new, w) ==
  IF old.comparisonText # new.comparisonText \/ old.isComposing # new.isComposing
  THEN [MouseCleanup(w) EXCEPT !.listening = TRUE,
                               !.listenerComposing = new.isComposing]
  ELSE w

\* lines 316-331 with the loop stopping one segment short
ProjectionDropsLast(segs) ==
  [i \in 1..(Len(segs) - 1) |->
     Span(IF segs[i].highlight THEN "highlighted" ELSE "plain", segs[i].text)]

\* lines 316-331: one span per segment
Projection(segs) ==
  [i \in 1..Len(segs) |->
     Span(IF segs[i].highlight THEN "highlighted" ELSE "plain", segs[i].text)]

\* lines 333-338: the deferral, closing over this render's state
ScheduleRestore(new, w) ==
  IF new.isFocused /\ ~new.isComposing
  THEN [w EXCEPT !.pendingRestores =
          Append(@, [pos |-> new.cursorPosition, isFocused |-> new.isFocused,
                     isComposing |-> new.isComposing])]
  ELSE w

\* lines 301-339 with the early return of lines 306-308 left out
RebuildBodyNoEmptyReturn(new, w) ==
  IF new.isComposing THEN w
  ELSE LET cleared == SetInnerHTML(w, <<>>)
           res == getHighlightedSegments(new.inputText, new.comparisonText)
       IN  IF res.pc = "hung" THEN [cleared EXCEPT !.hung = TRUE]
           ELSE ScheduleRestore(new, [cleared EXCEPT !.surface = Projection(res.segments),
                                                     !.rebuilt = TRUE])

\* lines 301-339: the body of the rebuild effect
RebuildBody(new, w) ==
  IF new.isComposing THEN w
  ELSE IF new.inputText = <<>> /\ ~new.isFocused THEN w
  ELSE LET cleared == SetInnerHTML(w, <<>>)
           res == getHighlightedSegments(new.inputText, new.comparisonText)
       IN  IF res.pc = "hung" THEN [cleared EXCEPT !.hung = TRUE]
           ELSE ScheduleRestore(new, [cleared EXCEPT !.surface = Projection(res.segments),
                                                     !.rebuilt = TRUE])

\* lines 300-340, deps [inputText, comparisonText, isFocused, isComposing]
RebuildEffect(old, new, w) ==
  IF \/ old.inputText # new.inputText
     \/ old.comparisonText # new.comparisonText
     \/ old.isFocused # new.isFocused
     \/ old.isComposing # new.isComposing
  THEN RebuildBody(new, w)
  ELSE w

\* the effects of the render of state new after the render of state old, in
\* the order the hooks are declared
Effects(old, new, w) == RebuildEffect(old, new, MouseEffect(old, new, w))

\* the state after a handler left React state new and the world w
Commit(new, w) ==
  /\ Len(w.pendingRestores) <= MaxPending
  /\ inputText' = new.inputText
  /\ comparisonText' = new.comparisonText
  /\ isFocused' = new.isFocused
  /\ cursorPosition' = new.cursorPosition
  /\ isComposing' = new.isComposing
  /\ surface' = w.surface
  /\ selection' = w.selection
  /\ pendingRestores' = w.pendingRestores
  /\ tooltipTimeoutRef' = w.tooltipTimeoutRef
  /\ showTimers' = w.showTimers
  /\ listenerComposing' = w.listenerComposing
  /\ hung' = w.hung
  /\ wrote' = w.wrote
  /\ rebuilt' = w.rebuilt
  /\ listening' = w.listening
  /\ anchor' = w.anchor

----------------------------------------------------------------------------
(* Handlers: the React state and the world each leaves *)

\* lines 342-349
handleFocus(cur, w) ==
  [state |-> [cur EXCEPT !.isFocused = TRUE],
   world |-> IF cur.inputText = <<>> THEN SetInnerHTML(w, <<>>) ELSE w]

\* lines 351-358
handleBlur(cur, w) ==
  [state |-> [cur EXCEPT !.isFocused = FALSE],
   world |-> IF cur.inputText = <<>> THEN SetInnerHTML(w, PlaceholderSurface) ELSE w]

\* lines 116-124
handleInputChange(cur, w) ==
  [state |-> IF cur.isComposing THEN cur
             ELSE [cur EXCEPT
                     !.cursorPosition = saveCursorPosition(w.surface, w.selection, @),
                     !.inputText = TextContent(w.surface)],
   world |-> w]

\* lines 127-129
handleCompositionStart(cur, w) ==
  [state |-> [cur EXCEPT !.isComposing = TRUE], world |-> w]

\* lines 131-138
handleCompositionEnd(cur, w) ==
  [state |-> [cur EXCEPT
                !.isComposing = FALSE,
                !.cursorPosition = saveCursorPosition(w.surface, w.selection, @),
                !.inputText = TextContent(w.surface)],
   world |-> w]

\* lines 69-71
handleComparisonChange(cur, w, value) ==
  [state |-> [cur EXCEPT !.comparisonText = value], world |-> w]

\* lines 248-263: the pointer is over child p of the surface (0: over none);
\* a span is found when it carries data-highlighted and has a box to be in
FoundSpan(surf, p) ==
  p # 0 /\ surf[p].kind = "span" /\ surf[p].cls = "highlighted" /\ surf[p].kids # <<>>

\* the id setTimeout returns: one no pending timer and no stored id uses
FreshTimerId(w) ==
  CHOOSE id \in 1..(Cardinality(w.showTimers) + 2) :
    id \notin w.showTimers /\ id # w.tooltipTimeoutRef

\* lines 265-269 with the clearTimeout call left out
ClearShowTimerNoCancel(w) ==
  IF w.tooltipTimeoutRef # 0 THEN [w EXCEPT !.tooltipTimeoutRef = 0] ELSE w

\* lines 265-269
ClearShowTimer(w) ==
  IF w.tooltipTimeoutRef # 0
  THEN [w EXCEPT !.showTimers = @ \ {w.tooltipTimeoutRef}, !.tooltipTimeoutRef = 0,
                 !.anchor.timer = IF w.showTimers \subseteq {w.tooltipTimeoutRef}
                                  THEN "none" ELSE @]
  ELSE w

\* lines 271-284
ShowOrHide(found, w, tt) ==
  IF found
  THEN LET id == FreshTimerId(w)
       IN  [world |-> [w EXCEPT !.showTimers = @ \cup {id}, !.tooltipTimeoutRef = id,
                                !.anchor.timer = "live"],
            tooltip |-> tt, found |-> "hit"]
  ELSE [world |-> [w EXCEPT !.anchor.shown = "none"],
        tooltip |-> [tt EXCEPT !.visible = FALSE], found |-> "miss"]

\* lines 245-285 with lines 265-269 left out
handleDocumentMouseMoveNoClear(w, tt, p) ==
  IF w.listenerComposing
  THEN [world |-> w, tooltip |-> tt, found |-> "ignored"]
  ELSE ShowOrHide(FoundSpan(w.surface, p), w, tt)

\* lines 245-285, run by the registered listener
handleDocumentMouseMove(w, tt, p) ==
  IF w.listenerComposing
  THEN [world |-> w, tooltip |-> tt, found |-> "ignored"]
  ELSE ShowOrHide(FoundSpan(w.surface, p), ClearShowTimer(w), tt)

----------------------------------------------------------------------------
(* Actions: one event each, its handler, the render and its effects *)

TypeChars == {"a", "b"}

ComparisonChoices == {<<>>, <<"a">>}

\* the surface takes the focus; the browser puts the caret in it
Focus ==
  /\ ~hung
  /\ mounted
  /\ ~isFocused
  /\ LET h == handleFocus(Cur, [World EXCEPT !.selection = InRoot(0)])
     IN  Commit(h.state, Effects(Cur, h.state, h.world))
  /\ UNCHANGED <<tooltip, scan, lastMove, mounted>>

\* the surface loses the focus, and the selection leaves with it
Blur ==
  /\ ~hung
  /\ mounted
  /\ isFocused
  /\ LET h == handleBlur(Cur, [World EXCEPT !.selection = Outside])
     IN  Commit(h.state, Effects(Cur, h.state, h.world))
  /\ UNCHANGED <<tooltip, scan, lastMove, mounted>>

\* the browser has edited the surface at the caret and fires input
InputEvent(edit) ==
  LET h == handleInputChange(Cur, [World EXCEPT !.surface = edit.surface,
                                               !.selection = edit.selection])
  IN  Commit(h.state, Effects(Cur, h.state, h.world))

TypeChar ==
  /\ ~hung
  /\ mounted
  /\ isFocused
  /\ SelectionInSurface(selection)
  /\ Len(TextContent(surface)) < MaxTextLen
  /\ \E ch \in TypeChars : InputEvent(EditInsert(surface, selection, ch))
  /\ UNCHANGED <<tooltip, scan, lastMove, mounted>>

DeleteChar ==
  /\ ~hung
  /\ mounted
  /\ isFocused
  /\ Len(TextContent(surface)) <= MaxTextLen
  /\ CanDelete(surface, selection)
  /\ InputEvent(EditDelete(surface, selection))
  /\ UNCHANGED <<tooltip, scan, lastMove, mounted>>

\* a click or an arrow key moves the caret; no handler of the widget runs
MoveCaret ==
  /\ ~hung
  /\ mounted
  /\ isFocused
  /\ Len(TextContent(surface)) <= MaxTextLen
  /\ \E pos \in CaretPositions(surface) \ {selection} : selection' = pos
  /\ wrote' = FALSE
  /\ rebuilt' = FALSE
  /\ UNCHANGED <<inputText, comparisonText, isFocused, cursorPosition, isComposing,
                 tooltip, tooltipTimeoutRef, showTimers, pendingRestores,
                 listenerComposing, surface, hung, scan, lastMove, mounted,
                 listening, anchor>>

CompositionStart ==
  /\ ~hung
  /\ mounted
  /\ isFocused
  /\ ~isComposing
  /\ LET h == handleCompositionStart(Cur, World)
     IN  Commit(h.state, Effects(Cur, h.state, h.world))
  /\ UNCHANGED <<tooltip, scan, lastMove, mounted>>

CompositionEnd ==
  /\ ~hung
  /\ mounted
  /\ isComposing
  /\ LET h == handleCompositionEnd(Cur, World)
     IN  Commit(h.state, Effects(Cur, h.state, h.world))
  /\ UNCHANGED <<tooltip, scan, lastMove, mounted>>

ComparisonChange ==
  /\ ~hung
  /\ mounted
  /\ \E value \in ComparisonChoices \ {comparisonText} :
       LET h == handleComparisonChange(Cur, World, value)
       IN  Commit(h.state, Effects(Cur, h.state, h.world))
  /\ UNCHANGED <<tooltip, scan, lastMove, mounted>>

MouseMove ==
  /\ ~hung
  /\ listening
  /\ \E p \in 0..Len(surface) :
       LET h == handleDocumentMouseMove(World, tooltip, p)
       IN  /\ Commit(Cur, h.world)
           /\ tooltip' = h.tooltip
           /\ lastMove' = IF h.found = "ignored" THEN lastMove ELSE h.found
  /\ UNCHANGED <<scan, mounted>>

\* a timer of line 274 fires: lines 275-280
ShowTimerFires ==
  /\ ~hung
  /\ \E id \in showTimers :
       /\ showTimers' = showTimers \ {id}
       /\ tooltip' = [tooltip EXCEPT !.visible = TRUE]
       /\ anchor' = [timer |-> IF showTimers = {id} THEN "none" ELSE anchor.timer,
                     shown |-> anchor.timer]
  /\ wrote' = FALSE
  /\ rebuilt' = FALSE
  /\ UNCHANGED <<inputText, comparisonText, isFocused, cursorPosition, isComposing,
                 tooltipTimeoutRef, pendingRestores, listenerComposing, surface,
                 selection, hung, scan, lastMove, mounted, listening>>

\* the oldest timer of line 335 fires: line 336; after unmount
\* inputRef.current is null and line 142 returns
RestoreFires ==
  /\ ~hung
  /\ pendingRestores # <<>>
  /\ LET d == Head(pendingRestores)
         r == IF mounted
              THEN setCursorToPosition(d.pos, d.isFocused, d.isComposing, surface,
                                       selection)
              ELSE [surface |-> surface, selection |-> selection]
     IN  /\ surface' = r.surface
         /\ selection' = r.selection
  /\ pendingRestores' = Tail(pendingRestores)
  /\ wrote' = FALSE
  /\ rebuilt' = FALSE
  /\ UNCHANGED <<inputText, comparisonText, isFocused, cursorPosition, isComposing,
                 tooltip, tooltipTimeoutRef, showTimers, listenerComposing, hung, scan,
                 lastMove, mounted, listening, anchor>>

\* the component is unmounted: the cleanup of lines 290-296 runs, the
\* instance's state is discarded and the surface leaves the document; the
\* timers of line 335 have no cleanup and stay
Unmount ==
  /\ ~hung
  /\ mounted
  /\ LET w == MouseCleanup(World)
     IN  /\ showTimers' = w.showTimers
         /\ listening' = w.listening
         /\ anchor' = [timer |-> IF showTimers # {} /\ w.showTimers = {}
                                 THEN "cancelled" ELSE w.anchor.timer,
                       shown |-> "none"]
  /\ mounted' = FALSE
  /\ inputText' = <<>>
  /\ comparisonText' = InitialComparison
  /\ isFocused' = FALSE
  /\ cursorPosition' = 0
  /\ isComposing' = FALSE
  /\ tooltip' = [visible |-> FALSE]
  /\ surface' = <<>>
  /\ selection' = IF SelectionInSurface(selection) THEN NoSelection ELSE selection
  /\ wrote' = FALSE
  /\ rebuilt' = FALSE
  /\ UNCHANGED <<tooltipTimeoutRef, pendingRestores, listenerComposing, hung, scan,
                 lastMove>>

Init ==
  /\ InitUI
  /\ inputText = <<>>
  /\ comparisonText = InitialComparison
  /\ scan = IdleScan

Next ==
  \/ Focus
  \/ Blur
  \/ TypeChar
  \/ DeleteChar
  \/ MoveCaret
  \/ CompositionStart
  \/ CompositionEnd
  \/ ComparisonChange
  \/ MouseMove
  \/ ShowTimerFires
  \/ RestoreFires
  \/ Unmount

Spec == Init /\ [][Next]_vars

\* the widget used without an input method: no composition event arrives
PlainNext ==
  \/ Focus
  \/ Blur
  \/ TypeChar
  \/ DeleteChar
  \/ MoveCaret
  \/ ComparisonChange
  \/ MouseMove
  \/ ShowTimerFires
  \/ RestoreFires
  \/ Unmount

PlainSpec == Init /\ [][PlainNext]_vars

----------------------------------------------------------------------------
(* Claims about the segment computer, checked under SegSpec *)

SegTexts(segs) == [i \in 1..Len(segs) |-> segs[i].text]

ScanEnded == scan.pc \in {"done", "hung"}

\* case-insensitive occurrence of c in s at 0-based index i
CIOccursAt(s, c, i) ==
  /\ i >= 0
  /\ i + Len(c) <= Len(s)
  /\ toLowerCase(SubSeq(s, i + 1, i + Len(c))) = toLowerCase(c)

\* the leftmost-first non-overlapping segmentation of s from index cur on,
\* for a non-empty c: matched occurrences and the maximal gaps between them
RECURSIVE LeftmostSegments(_, _, _)
LeftmostSegments(s, c, cur) ==
  LET hits == {i \in cur..Len(s) : CIOccursAt(s, c, i)}
  IN  IF hits = {}
      THEN IF cur < Len(s) THEN <<Segment(SubSeq(s, cur + 1, Len(s)), FALSE)>> ELSE <<>>
      ELSE LET m == CHOOSE i \in hits : \A j \in hits : i <= j
           IN  (IF m > cur THEN <<Segment(SubSeq(s, cur + 1, m), FALSE)>> ELSE <<>>)
               \o <<Segment(SubSeq(s, m + 1, m + Len(c)), TRUE)>>
               \o LeftmostSegments(s, c, m + Len(c))

\* C4: for every input text and every comparison text, the empty one
\* included, the call returns and the texts of the returned segments,
\* concatenated in order, are the input text.
C4_RoundTrip ==
  ScanEnded => (scan.pc = "done" /\ Concat(SegTexts(scan.segments)) = inputText)

\* C5: the segment computation terminates for every pair of texts: no call
\* reaches an iteration of the scan loop that pushes a zero-length match
\* without advancing, also when the comparison text is empty.
C5_Terminates == scan.pc # "hung"

\* C6: every segment marked matched equals the comparison text under
\* case-insensitive comparison, and a match never starts before the end of
\* the match before it.
C6_MatchFidelity ==
  /\ scan.pc = "done" =>
       \A i \in 1..Len(scan.segments) :
         scan.segments[i].highlight =>
           toLowerCase(scan.segments[i].text) = toLowerCase(comparisonText)
  /\ (scan.pc = "loop" /\ scan.matchIndex # -1) => scan.matchIndex >= scan.currentIndex

\* C7: for a non-empty comparison text the returned segments are exactly the
\* occurrences chosen by a leftmost-first non-overlapping case-insensitive
\* scan, with the maximal gaps between them as the unmatched segments.
C7_LeftmostScan ==
  (scan.pc = "done" /\ inputText # <<>> /\ comparisonText # <<>>) =>
    scan.segments = LeftmostSegments(inputText, comparisonText, 0)

\* C8: a segment with empty text is returned only for the empty input text,
\* whose result is exactly one unmatched empty segment.
C8_EmptyOnlyForEmptyInput ==
  scan.pc = "done" =>
    IF inputText = <<>>
    THEN scan.segments = <<Segment(<<>>, FALSE)>>
    ELSE \A i \in 1..Len(scan.segments) : scan.segments[i].text # <<>>

----------------------------------------------------------------------------
(* Claims about the editable surface, the caret and the tooltip, checked
   under Spec *)

\* the oldest deferred caret restoration fires in this step
RestoreStep == pendingRestores # <<>> /\ pendingRestores' = Tail(pendingRestores)

\* the surface is the projection of the current inputText and comparisonText
SurfaceIsProjection ==
  /\ ~hung
  /\ getHighlightedSegments(inputText, comparisonText).pc = "done"
  /\ surface = Projection(getHighlightedSegments(inputText, comparisonText).segments)

\* the number of code units before a caret in a text node one level inside
\* child i of the surface
LinearOffset(surf, sel) ==
  Len(TextContent(SubSeq(surf, 1, sel.i - 1)))
    + Len(Concat(SubSeq(surf[sel.i].kids, 1, sel.j - 1))) + sel.off

HasHighlightedSpan == \E p \in 1..Len(surface) : FoundSpan(surface, p)

\* C1: while a composition is in progress no event's run replaces the
\* children of the surface, neither the rebuild effect nor the placeholder
\* writes of the focus and blur handlers.
C1_CompositionGuard == isComposing => ~wrote

\* C2: a deferred caret restoration that fires while a composition is in
\* progress or while the surface is not focused leaves the selection as it is.
C2_RestoreGuard ==
  [][(RestoreStep /\ (isComposing \/ ~isFocused)) => selection' = selection]_vars

\* C3: the deferred restoration of the captured offset k, the only one
\* pending, that fires focused and not composing on the projection of a text
\* at least k long leaves the caret in a text node inside a segment span, at
\* linear offset k.
C3_CaretRoundTrip ==
  [][(/\ RestoreStep
      /\ Len(pendingRestores) = 1
      /\ Head(pendingRestores).pos = cursorPosition
      /\ isFocused
      /\ ~isComposing
      /\ SurfaceIsProjection
      /\ inputText # <<>>
      /\ Head(pendingRestores).pos <= Len(inputText))
     => (/\ selection'.c = "grandchild"
         /\ LinearOffset(surface', selection') = Head(pendingRestores).pos)]_vars

\* C9: once a pointer-move handled outside composition has hit no matched
\* element, the tooltip is hidden and no show timer is pending, and this lasts
\* until a later pointer-move hits a matched element.
C9_HideOnMiss == lastMove = "miss" => (~tooltip.visible /\ showTimers = {})

C9_Witness ==
  /\ lastMove = "miss"
  /\ HasHighlightedSpan
  /\ ~isComposing
  /\ ~tooltip.visible

\* C10: while a composition is in progress the tooltip is not visible.
C10_HiddenWhileComposing == isComposing => ~tooltip.visible

\* C11: the run of an event that completes a rebuild leaves the text content
\* of the surface equal to inputText, and a deferred caret restoration that
\* fires, whatever it does to the selection, changes neither inputText nor
\* the text content of the surface.
C11_TextPreserved ==
  [][/\ (rebuilt' => TextContent(surface') = inputText')
     /\ (RestoreStep => (/\ inputText' = inputText
                         /\ TextContent(surface') = TextContent(surface)))]_vars

C11_Witness ==
  /\ mounted
  /\ isFocused
  /\ inputText # <<>>
  /\ TextContent(surface) = inputText
  /\ selection.c = "grandchild"
  /\ selection.off = Len(inputText)
  /\ pendingRestores = <<>>

\* C12: once the component is unmounted the pointer listener is no longer
\* registered and no tooltip show timer is pending, and no step taken after
\* the unmount updates the tooltip or runs the hit-test of a pointer-move.
C12_UnmountCleansUp ==
  [][~mounted' => (/\ ~listening'
                   /\ showTimers' = {}
                   /\ (~mounted => (tooltip' = tooltip /\ lastMove' = lastMove)))]_vars

C12_Witness == ~mounted /\ anchor.timer = "cancelled" /\ pendingRestores = <<>>

\* C13: a rebuild that runs while the deferred caret restoration of an earlier
\* rebuild is still pending supersedes it: the earlier deferral is not queued
\* alongside the newer one, so at most one deferral is pending.
C13_RestoreSuperseded == Len(pendingRestores) <= 1

\* C14: at most one tooltip show timer is pending at any time, and a tooltip
\* that becomes visible does so by the timer of the most recent handled
\* pointer-move, which found a matched element.
C14_SingleShowTimer ==
  [][/\ Cardinality(showTimers') <= 1
     /\ ((~tooltip.visible /\ tooltip'.visible)
           => (lastMove = "hit" /\ showTimers = {tooltipTimeoutRef}))]_vars

C14_Witness ==
  /\ tooltip.visible
  /\ anchor.shown = "live"
  /\ showTimers = {tooltipTimeoutRef}
  /\ lastMove = "hit"

\* C15: in every state the mounted widget reaches by focus, blur, input and
\* comparison-change events with no composition, the surface shows the
\* placeholder exactly when it is unfocused and inputText is empty; a
\* comparison change while unfocused and empty leaves the placeholder.
C15_PlaceholderIffIdleEmpty ==
  mounted => ((surface = PlaceholderSurface) <=> (~isFocused /\ inputText = <<>>))

C15_Witness ==
  /\ mounted
  /\ ~isFocused
  /\ inputText = <<>>
  /\ comparisonText # InitialComparison
  /\ surface = PlaceholderSurface
  /\ pendingRestores # <<>>

\* the start container of the selection is a text node, a child of the
\* surface or of one of its child elements
CaretInTextNode(surf, sel) ==
  \/ sel.c = "grandchild"
  \/ sel.c = "child" /\ surf[sel.i].kind = "text"

\* the length of the text before the caret in such a text node
TextBefore(surf, sel) ==
  IF sel.c = "grandchild" THEN LinearOffset(surf, sel)
  ELSE Len(TextContent(SubSeq(surf, 1, sel.i - 1))) + sel.off

\* what a capture on surface surf with selection sel made of the offset old
Captured(surf, sel, old, new) ==
  /\ (~SelectionInSurface(sel) => new = old)
  /\ (CaretInTextNode(surf, sel) => new = TextBefore(surf, sel))

\* the step is the input event of the code unit ch typed outside composition
TypedStep(ch) ==
  /\ mounted
  /\ ~isComposing
  /\ isFocused
  /\ SelectionInSurface(selection)
  /\ Len(inputText') = Len(TextContent(surface)) + 1
  /\ inputText' = TextContent(EditInsert(surface, selection, ch).surface)

NoTextNode(surf) ==
  \A i \in 1..Len(surf) : surf[i].kind = "span" /\ surf[i].kids = <<>>

\* C17: a deferred caret restoration that runs (focused and not composing in
\* its closure) on a surface holding no text node, such as the surface rebuilt
\* from the empty inputText whose only child is an empty span, creates a
\* zero-length text node and leaves the selection in it at offset 0; one
\* whose offset exceeds the length of the text leaves the selection at the end
\* of the last text node.
C17_RestoreOnEmptySurface ==
  [][(/\ RestoreStep
      /\ mounted
      /\ Head(pendingRestores).isFocused
      /\ ~Head(pendingRestores).isComposing)
     => /\ (NoTextNode(surface)
              => (/\ CaretInTextNode(surface', selection')
                  /\ selection'.off = 0
                  /\ TextContent(surface') = <<>>))
        /\ ((~NoTextNode(surface)
               /\ Head(pendingRestores).pos > Len(TextContent(surface)))
              => selection' = findLastTextNode(surface, Len(surface)))]_vars

\* C18: no step taken while a composition is and stays in progress, an input
\* event included, changes inputText or cursorPosition; the step that ends
\* the composition leaves isComposing false and inputText equal to the text
\* content the surface had, and, when the segment computation returns, its
\* run completes a rebuild, also when the committed text equals the previous
\* inputText.
C18_CompositionCommit ==
  [][/\ ((isComposing /\ isComposing')
           => (inputText' = inputText /\ cursorPosition' = cursorPosition))
     /\ ((isComposing /\ ~isComposing' /\ mounted')
           => (/\ inputText' = TextContent(surface)
               /\ (~hung' => rebuilt')))]_vars

\* C19: the placeholder string is never read back from the surface into
\* inputText, in particular not by a compositionend that follows a blur during
\* a composition on the empty field.
C19_PlaceholderNotReadBack == inputText # PLACEHOLDER

\* C20: whenever the tooltip is visible, the span it took its rectangle from
\* is still a child of the surface: a rebuild that replaces that span leaves
\* no tooltip visible for it, and none becomes visible for it later.
C20_TooltipAnchorLive == tooltip.visible => anchor.shown = "live"

====
